---- MODULE Spec2Model ----
(***************************************************************************)
(* Model of update.py: the release-data update run.  The run executes the  *)
(* update scripts of src/ one after another, detects the files of          *)
(* releases/ changed by them through the git index, loads the new and the  *)
(* old content of these files around a git stash / git stash pop pair and  *)
(* renders the diffs to the step summary and to the commit_message output. *)
(***************************************************************************)
EXTENDS Integers, Sequences, FiniteSets, TLC

(***************************************************************************)
(* Bounds of the model.                                                    *)
(***************************************************************************)
MaxEntries == 2
MaxWrites == 2
MaxDuration == 2

(***************************************************************************)
(* File names and paths.  A file name is a record of its stem and its      *)
(* extension; a path is the sequence of its components, as pathlib keeps   *)
(* it.  Path('') is the path without components.                           *)
(***************************************************************************)
Name(stem, ext) == [stem |-> stem, ext |-> ext]

SRC_DIR == <<Name("src", "")>>
DATA_DIR == <<Name("releases", "")>>

\* The names of the model in ascending string order (ASCII).
NameOrder ==
    << Name("README", "md"), Name("a", "py"), Name("alpha", "json"),
       Name("b", "py"), Name("beta", "json"), Name("c", "py"),
       Name("gamma", "json"), Name("notes", "txt"), Name("releases", ""),
       Name("src", ""), Name("sub", "") >>

Rank(c) == CHOOSE i \in 1..Len(NameOrder) : NameOrder[i] = c

Min(a, b) == IF a < b THEN a ELSE b

\* Path.__lt__: comparison of the component tuples.
PathLess(p, q) ==
    \E k \in 1..(Min(Len(p), Len(q)) + 1) :
        /\ \A j \in 1..(k - 1) : p[j] = q[j]
        /\ \/ k > Len(p) /\ k <= Len(q)
           \/ k <= Len(p) /\ k <= Len(q) /\ Rank(p[k]) < Rank(q[k])

\* Path.parent: the parent of a path without components is that path.
Parent(p) == IF Len(p) = 0 THEN p ELSE SubSeq(p, 1, Len(p) - 1)

\* Path.stem
Stem(p) == p[Len(p)].stem

\* SRC_DIR / file
Join(dir, file) == dir \o <<file>>

\* str.endswith('.py')
EndsWithPy(file) == file.ext = "py"

\* sorted() of a list of paths: stable, ascending by Path.__lt__.
InsertPath(s, x) ==
    LET before == {i \in 1..Len(s) : PathLess(x, s[i])}
        k == IF before = {} THEN Len(s) + 1
             ELSE CHOOSE i \in before : \A j \in before : i <= j
    IN  SubSeq(s, 1, k - 1) \o <<x>> \o SubSeq(s, k, Len(s))

\* Mutant: the list is left in the order it came in.
SortedPaths_Unsorted(s) == s

RECURSIVE SortedPaths(_)
SortedPaths(s) ==
    IF s = <<>> THEN <<>>
    ELSE InsertPath(SortedPaths(SubSeq(s, 1, Len(s) - 1)), s[Len(s)])

(***************************************************************************)
(* ScriptResult and the ordering of the summary table.                     *)
(***************************************************************************)
ScriptResult(path, duration, success) ==
    [name |-> Stem(path), duration |-> duration, success |-> success]

\* Mutant: the comparison is reversed.
ResultLess_Greater(r1, r2) == r1.duration > r2.duration

\* ScriptResult.__lt__
ResultLess(r1, r2) == r1.duration < r2.duration

\* sorted(results, reverse=True): descending, equal elements keep their order.
InsertResult(s, x) ==
    LET before == {i \in 1..Len(s) : ResultLess(s[i], x)}
        k == IF before = {} THEN Len(s) + 1
             ELSE CHOOSE i \in before : \A j \in before : i <= j
    IN  SubSeq(s, 1, k - 1) \o <<x>> \o SubSeq(s, k, Len(s))

RECURSIVE SortedResultsReverse(_)
SortedResultsReverse(s) ==
    IF s = <<>> THEN <<>>
    ELSE InsertResult(SortedResultsReverse(SubSeq(s, 1, Len(s) - 1)), s[Len(s)])

(***************************************************************************)
(* File contents.  A file of the working tree is absent, or holds a text   *)
(* that is no JSON document, or holds a JSON document in one of two        *)
(* formattings (fmt): git compares texts, json.load drops the formatting.  *)
(* A JSON document of the model is an object: a set of key/value entries,  *)
(* a value being a number or an array of numbers.                          *)
(***************************************************************************)
NoValue == [kind |-> "none", n |-> 0, arr |-> <<>>]
Num(n) == [kind |-> "num", n |-> n, arr |-> <<>>]
Arr(a) == [kind |-> "arr", n |-> 0, arr |-> a]
Entry(key, val) == [key |-> key, val |-> val]

EmptyObject == {}

Absent == [exists |-> FALSE, valid |-> FALSE, fmt |-> 0, doc |-> {}]
BadText == [exists |-> TRUE, valid |-> FALSE, fmt |-> 0, doc |-> {}]
Text(fmt, doc) == [exists |-> TRUE, valid |-> TRUE, fmt |-> fmt, doc |-> doc]

\* A file that is created and not yet written: a text of length 0.
EmptyFile == [exists |-> TRUE, valid |-> FALSE, fmt |-> 1, doc |-> {}]

\* Mutant: the test for a missing file is absent, every path is opened.
Exists_Always(content) == TRUE

\* path.exists()
Exists(content) == content.exists

\* path.open(): the mode is 'r', the file is left as it is.
\* Mutant: the file is opened with mode 'w', which truncates it.
PathOpen_Truncating(content) == EmptyFile

PathOpen(content) == content

\* json.load(file): raises on a text that is no JSON document.
JsonLoadRaises(content) == ~content.valid
JsonLoad(content) == content.doc

(***************************************************************************)
(* dict[Path, dict]: a dict keeps the insertion order of its keys, so it   *)
(* is a sequence of key/value items with distinct keys.                    *)
(***************************************************************************)
Item(key, value) == [key |-> key, value |-> value]

DictKeys(d) == [i \in 1..Len(d) |-> d[i].key]

DictHas(d, k) == \E i \in 1..Len(d) : d[i].key = k

DictGet(d, k) == d[CHOOSE i \in 1..Len(d) : d[i].key = k].value

\* d[k] = v
DictSet(d, k, v) ==
    IF DictHas(d, k)
    THEN [i \in 1..Len(d) |-> IF d[i].key = k THEN Item(k, v) ELSE d[i]]
    ELSE Append(d, Item(k, v))

(***************************************************************************)
(* load_products_json: the loop over the paths, from the first to the      *)
(* last; the first json.load that raises ends the call.  The call returns  *)
(* the mapping and leaves the files as its file operations leave them.     *)
(***************************************************************************)
RECURSIVE LoadLoop(_, _, _, _)
LoadLoop(paths, i, files_content, tree) ==
    IF i > Len(paths) THEN [raised |-> FALSE, value |-> files_content, tree |-> tree]
    ELSE LET path == paths[i] IN
         IF Exists(tree[path])
         THEN LET opened == [tree EXCEPT ![path] = PathOpen(tree[path])] IN
              IF JsonLoadRaises(opened[path])
              THEN [raised |-> TRUE, value |-> <<>>, tree |-> opened]
              ELSE LoadLoop(paths, i + 1,
                            DictSet(files_content, path, JsonLoad(opened[path])),
                            opened)
         ELSE LoadLoop(paths, i + 1, DictSet(files_content, path, EmptyObject), tree)

load_products_json(updated_product_files, tree) ==
    LoadLoop(updated_product_files, 1, <<>>, tree)

(***************************************************************************)
(* get_updated_products, after the two git calls: the standard output of   *)
(* git diff is split at the newlines (a string is kept as the sequence of  *)
(* its newline-free segments, so the output ends with the empty segment),  *)
(* every segment becomes a Path, the paths whose parent is DATA_DIR are    *)
(* kept and sorted.                                                        *)
(***************************************************************************)
EmptyString == <<>>

GitDiffStdout(names) == names \o <<EmptyString>>

\* Mutant: every path below DATA_DIR is kept, at any depth.
KeepInDataDir_Below(file) == Len(file) >= 2 /\ file[1] = DATA_DIR[1]

KeepInDataDir(file) == Parent(file) = DATA_DIR

FilterUpdated(updated_files) == SelectSeq(updated_files, KeepInDataDir)

get_updated_products(stdout) == SortedPaths(FilterUpdated(stdout))

(***************************************************************************)
(* DeepDiff(old, new, ignore_order=True, verbose_level=2) and pretty().    *)
(* The report lists the keys added to and removed from the object, the     *)
(* changed numbers, and for an array the elements added and removed, the   *)
(* arrays being compared as sets.  pretty() prints one line per item, the  *)
(* report types in ascending order of their names, and joins the lines     *)
(* with newlines.  (When an array has both added and removed elements,     *)
(* DeepDiff may pair them into value changes; the documents of this model  *)
(* have no such pair of arrays.)                                           *)
(***************************************************************************)
DiffItem(type, key, idx, old, new) ==
    [type |-> type, key |-> key, idx |-> idx, old |-> old, new |-> new]

\* The text of an empty line.
EmptyText == DiffItem("", "", 0, NoValue, NoValue)

KeyOrder == <<"v", "x">>

Keys(doc) == {e.key : e \in doc}

ValueOf(doc, key) == (CHOOSE e \in doc : e.key = key).val

Elems(a) == {a[i] : i \in 1..Len(a)}

\* The items of one report type for one key, in report order.
ItemsOfKey(type, key, old, new) ==
    LET inOld == key \in Keys(old)
        inNew == key \in Keys(new)
        ov == IF inOld THEN ValueOf(old, key) ELSE NoValue
        nv == IF inNew THEN ValueOf(new, key) ELSE NoValue
        both == inOld /\ inNew
    IN  CASE type = "dictionary_item_added" ->
               IF inNew /\ ~inOld THEN <<DiffItem(type, key, 0, NoValue, nv)>> ELSE <<>>
          [] type = "dictionary_item_removed" ->
               IF inOld /\ ~inNew THEN <<DiffItem(type, key, 0, ov, NoValue)>> ELSE <<>>
          [] type = "iterable_item_added" ->
               IF both /\ ov.kind = "arr" /\ nv.kind = "arr"
               THEN LET idxs == {i \in 1..Len(nv.arr) : nv.arr[i] \notin Elems(ov.arr)}
                    IN  [j \in 1..Cardinality(idxs) |->
                          LET i == CHOOSE i \in idxs : Cardinality({m \in idxs : m < i}) = j - 1
                          IN  DiffItem(type, key, i - 1, NoValue, Num(nv.arr[i]))]
               ELSE <<>>
          [] type = "iterable_item_removed" ->
               IF both /\ ov.kind = "arr" /\ nv.kind = "arr"
               THEN LET idxs == {i \in 1..Len(ov.arr) : ov.arr[i] \notin Elems(nv.arr)}
                    IN  [j \in 1..Cardinality(idxs) |->
                          LET i == CHOOSE i \in idxs : Cardinality({m \in idxs : m < i}) = j - 1
                          IN  DiffItem(type, key, i - 1, Num(ov.arr[i]), NoValue)]
               ELSE <<>>
          [] type = "type_changes" ->
               IF both /\ ov.kind # nv.kind THEN <<DiffItem(type, key, 0, ov, nv)>> ELSE <<>>
          [] type = "values_changed" ->
               IF both /\ ov.kind = "num" /\ nv.kind = "num" /\ ov.n # nv.n
               THEN <<DiffItem(type, key, 0, ov, nv)>> ELSE <<>>

ReportTypes ==
    << "dictionary_item_added", "dictionary_item_removed", "iterable_item_added",
       "iterable_item_removed", "type_changes", "values_changed" >>

RECURSIVE ItemsOfType(_, _, _, _)
ItemsOfType(type, k, old, new) ==
    IF k > Len(KeyOrder) THEN <<>>
    ELSE ItemsOfKey(type, KeyOrder[k], old, new) \o ItemsOfType(type, k + 1, old, new)

RECURSIVE DiffFrom(_, _, _)
DiffFrom(t, old, new) ==
    IF t > Len(ReportTypes) THEN <<>>
    ELSE ItemsOfType(ReportTypes[t], 1, old, new) \o DiffFrom(t + 1, old, new)

\* DeepDiff(old, new, ignore_order=True, verbose_level=2)
DeepDiff(old, new) == DiffFrom(1, old, new)

\* diff.pretty(): '\n'.join(lines); the join of no line is the empty string,
\* whose only segment is the empty text.
Pretty(diff) == IF diff = <<>> THEN <<EmptyText>> ELSE diff

\* str.split('\n'): the segments of the string.
SplitLines(str) == str

(***************************************************************************)
(* The repository and the inputs of a run.                                 *)
(***************************************************************************)
ALPHA == <<Name("releases", ""), Name("alpha", "json")>>
BETA == <<Name("releases", ""), Name("beta", "json")>>
GAMMA == <<Name("releases", ""), Name("sub", ""), Name("gamma", "json")>>
README == <<Name("README", "md")>>

Paths == {ALPHA, BETA, GAMMA, README}

\* The files os.listdir(SRC_DIR) may return.
DirUniverse == {Name("a", "py"), Name("b", "py"), Name("notes", "txt")}
DirUniverseScripts == DirUniverse \cup {Name("c", "py")}

V1 == {Entry("v", Num(1))}
V2 == {Entry("v", Num(2))}
X12 == {Entry("x", Arr(<<1, 2>>))}
X21 == {Entry("x", Arr(<<2, 1>>))}
X1 == {Entry("x", Arr(<<1>>))}

\* What a script may leave at a path.
WriteContents(p) ==
    IF Parent(p) = DATA_DIR
    THEN {Absent, BadText, Text(0, V1), Text(1, V1), Text(0, V2), Text(0, X21),
          Text(0, X1)}
    ELSE {Absent, Text(0, V1)}

\* The committed trees a run may start from.
Heads ==
    {[p \in Paths |-> CASE p = ALPHA -> a
                        [] p = BETA -> Text(0, X12)
                        [] p = GAMMA -> Absent
                        [] OTHER -> Text(0, EmptyObject)] :
        a \in {Absent, BadText, Text(0, V1)}}

\* The sequences of distinct elements of S of length at most n.
RECURSIVE DistinctSeqs(_, _)
DistinctSeqs(S, n) ==
    IF n = 0 THEN {<<>>}
    ELSE LET shorter == DistinctSeqs(S, n - 1)
             longer == UNION {{Append(q, x) : x \in S \ {q[i] : i \in 1..Len(q)}} :
                                q \in shorter}
         IN  shorter \cup longer

ReturnCodes == {0, 1}
Outcomes == {"ok", "fail", "timeout"}

(***************************************************************************)
(* The state of a run.                                                     *)
(***************************************************************************)
VARIABLES
    pc,                 \* position of the main block
    dirEntries,         \* os.listdir(SRC_DIR)
    scripts,            \* the sorted list run_scripts iterates over
    idx,                \* position of the loop of run_scripts
    child,              \* the running child process: <<>> or <<script>>
    results,            \* results of run_scripts
    some_script_failed,
    head,               \* the committed tree (HEAD)
    index,              \* the git index
    worktree,           \* the working tree
    stash,              \* the git stash: a stack of saved [index, worktree]
    git_diff,           \* standard output of git diff --name-only --staged
    updated_products,
    new_files_content,
    old_files_content,
    summary,            \* GitHubStepSummary: the lines printed so far
    commit_message,     \* GitHubOutput('commit_message'): the lines printed so far
    summary_out,        \* what the step summary sink has received
    commit_out,         \* what the commit_message output has received
    exit_status,        \* -1 while the process runs
    writesLeft,         \* file changes the scripts may still make
    maxElapsed,         \* the longest time a script of this run may take
    orphan,             \* the git command that outlives a timed-out subprocess.run
    postScriptTree,     \* history: the working tree when the last script ended
    trace               \* history: the operations of the run, in order

vars ==
    << pc, dirEntries, scripts, idx, child, results, some_script_failed, head,
       index, worktree, stash, git_diff, updated_products, new_files_content,
       old_files_content, summary, commit_message, summary_out, commit_out,
       exit_status, writesLeft, maxElapsed, orphan, postScriptTree, trace >>

NoPath == <<>>

Event(op, arg, rc, ok) == [op |-> op, arg |-> arg, rc |-> rc, ok |-> ok]

\* One printed line: println(text).
Line(tag, names, num, flag, item) ==
    [tag |-> tag, names |-> names, num |-> num, flag |-> flag, item |-> item]

Plain(tag) == Line(tag, <<>>, 0, FALSE, EmptyText)

\* No git command is left running.
NoOrphan == [op |-> "none", ph |-> 0]

Start ==
    /\ pc = "start"
    /\ orphan = NoOrphan
    /\ scripts = <<>>
    /\ idx = 1
    /\ child = <<>>
    /\ results = <<>>
    /\ some_script_failed = FALSE
    /\ index = head
    /\ worktree = head
    /\ stash = <<>>
    /\ git_diff = <<>>
    /\ updated_products = <<>>
    /\ new_files_content = <<>>
    /\ old_files_content = <<>>
    /\ summary = <<>>
    /\ commit_message = <<>>
    /\ summary_out = <<>>
    /\ commit_out = <<>>
    /\ exit_status = -1
    /\ postScriptTree = head
    /\ trace = <<>>

\* A listing in ascending name order.
Ascending(entries) ==
    \A i, j \in 1..Len(entries) : i < j => Rank(entries[i]) < Rank(entries[j])

\* Runs over every committed tree, with scripts of one duration and listings
\* in ascending order (InitLive and InitScripts have the other orders).
Init ==
    /\ dirEntries \in {q \in DistinctSeqs(DirUniverse, MaxEntries) : Ascending(q)}
    /\ head \in Heads
    /\ writesLeft = MaxWrites
    /\ maxElapsed = 1
    /\ Start

\* Runs over one committed tree, with more scripts: the listings in every
\* order with scripts of one duration, and the ascending listings with scripts
\* of every duration (the order of the listing is read by RunScriptsBegin
\* only, the durations by TableLines only).
InitScripts ==
    /\ dirEntries \in DistinctSeqs(DirUniverseScripts, MaxEntries + 1)
    /\ head = [p \in Paths |-> IF p = ALPHA THEN Text(0, V1) ELSE Text(0, EmptyObject)]
    /\ writesLeft = 1
    /\ maxElapsed \in IF Ascending(dirEntries) THEN {1, MaxDuration} ELSE {1}
    /\ Start

(***************************************************************************)
(* run_scripts                                                             *)
(***************************************************************************)
\* [SRC_DIR / file for file in os.listdir(SRC_DIR) if file.endswith('.py')]
ScriptFiles(entries) ==
    LET py == SelectSeq(entries, EndsWithPy)
    IN  [i \in 1..Len(py) |-> Join(SRC_DIR, py[i])]

\* Mutant: only the last result counts.
AnyFailed_LastOnly(rs) == rs # <<>> /\ ~rs[Len(rs)].success

\* not all(result.success for result in results)
AnyFailed(rs) == ~(\A i \in 1..Len(rs) : rs[i].success)

\* The lines run_scripts prints to the summary.
TableLines(rs) ==
    LET sorted == SortedResultsReverse(rs)
    IN  <<Plain("## Script execution summary"), Plain("| Name | Duration | Succeeded |"),
          Plain("|------|----------|-----------|")>>
        \o [i \in 1..Len(sorted) |->
              Line("row", <<sorted[i].name>>, sorted[i].duration, sorted[i].success, EmptyText)]
        \o <<Plain("")>>

\* The list of scripts is built and sorted.
RunScriptsBegin ==
    /\ pc = "start"
    /\ scripts' = SortedPaths(ScriptFiles(dirEntries))
    /\ idx' = 1
    /\ pc' = "loop"
    /\ UNCHANGED << dirEntries, child, results, some_script_failed, head, index,
                    worktree, stash, git_diff, updated_products, new_files_content,
                    old_files_content, summary, commit_message, summary_out,
                    commit_out, exit_status, writesLeft, maxElapsed, postScriptTree, trace >>
    /\ UNCHANGED orphan

\* subprocess.run([sys.executable, script]) starts the child.
StartScript ==
    /\ pc = "loop"
    /\ idx <= Len(scripts)
    /\ child = <<>>
    /\ child' = <<scripts[idx]>>
    /\ trace' = Append(trace, Event("script_start", scripts[idx], 0, TRUE))
    /\ UNCHANGED << pc, dirEntries, scripts, idx, results, some_script_failed, head,
                    index, worktree, stash, git_diff, updated_products,
                    new_files_content, old_files_content, summary, commit_message,
                    summary_out, commit_out, exit_status, writesLeft, maxElapsed,
                    postScriptTree >>
    /\ UNCHANGED orphan

\* The running script creates, rewrites or deletes a file.
ScriptWrite ==
    /\ child # <<>>
    /\ writesLeft > 0
    /\ \E p \in Paths : \E c \in WriteContents(p) :
          /\ c # worktree[p]
          /\ worktree' = [worktree EXCEPT ![p] = c]
    /\ writesLeft' = writesLeft - 1
    /\ UNCHANGED << pc, dirEntries, scripts, idx, child, results, some_script_failed,
                    head, index, stash, git_diff, updated_products, new_files_content,
                    old_files_content, summary, commit_message, summary_out,
                    commit_out, exit_status, maxElapsed, postScriptTree, trace >>
    /\ UNCHANGED orphan

\* Mutant: the child is run with check=True, a non-zero exit status raises.
ScriptExit_CheckTrue ==
    /\ child # <<>>
    /\ \E rc \in ReturnCodes : \E elapsed_seconds \in 1..maxElapsed :
          /\ trace' = Append(trace, Event("script_end", child[1], rc, rc = 0))
          /\ IF rc = 0
             THEN /\ results' = Append(results, ScriptResult(child[1], elapsed_seconds, TRUE))
                  /\ idx' = idx + 1
                  /\ UNCHANGED << pc, exit_status >>
             ELSE /\ pc' = "aborted"
                  /\ exit_status' = 1
                  /\ UNCHANGED << results, idx >>
    /\ child' = <<>>
    /\ UNCHANGED << dirEntries, scripts, some_script_failed, head, index, worktree,
                    stash, git_diff, updated_products, new_files_content,
                    old_files_content, summary, commit_message, summary_out,
                    commit_out, writesLeft, maxElapsed, postScriptTree >>
    /\ UNCHANGED orphan

\* The child terminates; subprocess.run returns and the result is recorded.
ScriptExit ==
    /\ child # <<>>
    /\ \E rc \in ReturnCodes : \E elapsed_seconds \in 1..maxElapsed :
          /\ results' = Append(results, ScriptResult(child[1], elapsed_seconds, rc = 0))
          /\ trace' = Append(trace, Event("script_end", child[1], rc, rc = 0))
    /\ child' = <<>>
    /\ idx' = idx + 1
    /\ UNCHANGED << pc, dirEntries, scripts, some_script_failed, head, index, worktree,
                    stash, git_diff, updated_products, new_files_content,
                    old_files_content, summary, commit_message, summary_out,
                    commit_out, exit_status, writesLeft, maxElapsed, postScriptTree >>
    /\ UNCHANGED orphan

\* After the loop: the table is printed and the flag returned.
RunScriptsEnd ==
    /\ pc = "loop"
    /\ idx > Len(scripts)
    /\ child = <<>>
    /\ summary' = summary \o TableLines(results)
    /\ some_script_failed' = AnyFailed(results)
    /\ postScriptTree' = worktree
    /\ pc' = "add"
    /\ UNCHANGED << dirEntries, scripts, idx, child, results, head, index, worktree,
                    stash, git_diff, updated_products, new_files_content,
                    old_files_content, commit_message, summary_out, commit_out,
                    exit_status, writesLeft, maxElapsed, trace >>
    /\ UNCHANGED orphan

(***************************************************************************)
(* GitHubStepSummary and GitHubOutput (src.common.gha): text buffers that  *)
(* println appends to and that are delivered to their sinks when their     *)
(* with block ends; a run that ends with an error delivers no summary.     *)
(***************************************************************************)
println(buffer, line) == Append(buffer, line)

StepSummaryExit(buffer, delivered, raised) == IF raised THEN delivered ELSE buffer

OutputExit(buffer) == buffer


(***************************************************************************)
(* The git commands.  Every call is subprocess.run(..., timeout=10,        *)
(* check=True, shell=True): it returns, or raises on a non-zero exit       *)
(* status or on the timeout.  A command does its work in steps; when it    *)
(* ends with a non-zero status it has done some of them, not all, and when *)
(* the timeout ends the wait it has done any number of them.               *)
(***************************************************************************)
\* Mutant: check=True is missing, a non-zero exit status is ignored.
Raises_TimeoutOnly(outcome) == outcome = "timeout"

Raises(outcome) == outcome # "ok"

\* The phases of a git command: git add writes the index; git stash stores
\* the stash entry, checks HEAD out into the working tree and writes the
\* index (its git clean finds nothing to remove, everything is staged), then
\* updates the ref HEAD, which names the same commit as before; git stash
\* pop checks the saved tree out and stages it, resets the index but for the
\* added files, drops the entry.
Phases(op) ==
    CASE op = "add" -> 1
      [] op = "stash" -> 3
      [] op = "pop" -> 3
      [] OTHER -> 0

\* shell=True: the timeout kills the shell, the git command may go on.
Orphaned(op, outcome, ph) ==
    IF outcome = "timeout" /\ ph < Phases(op)
    THEN [op |-> op, ph |-> ph]
    ELSE NoOrphan

\* git add --all: the index takes the working tree.
GitAddIndex(wt) == wt

\* The paths whose staged text differs from HEAD.
GitChanged(hd, ix) == {p \in Paths : hd[p] # ix[p]}

\* The paths of HEAD that the index no longer has, and the paths it has added.
GitDeleted(hd, ix) == {p \in Paths : hd[p].exists /\ ~ix[p].exists}

GitAdded(hd, ix) == {p \in Paths : ~hd[p].exists /\ ix[p].exists}

\* Rename detection (diff.renames, on by default): git pairs deleted paths
\* with added paths, every path in at most one pair.  A deleted and an added
\* path with the same text are always paired with a path of that text (an
\* exact rename); of the others git pairs those whose texts it finds similar
\* enough, which depends on the layout of the texts.
GitRenamePairings(hd, ix) ==
    LET del == GitDeleted(hd, ix)
        add == GitAdded(hd, ix)
        Injective(f) == \A d, e \in DOMAIN f : f[d] = f[e] => d = e
        ExactSource(f, d) == d \in DOMAIN f /\ ix[f[d]] = hd[d]
        ExactTarget(f, a) == \E d \in DOMAIN f : f[d] = a /\ ix[a] = hd[d]
    IN  {f \in UNION {[D -> add] : D \in SUBSET del} :
            /\ Injective(f)
            /\ \A d \in del : \A a \in add :
                  ix[a] = hd[d] => ExactSource(f, d) \/ ExactTarget(f, a)}

\* git diff --name-only --staged: the changed paths; of a renamed file only
\* the new name is printed.
GitStagedNames(hd, ix, renames) == GitChanged(hd, ix) \ DOMAIN renames

\* The orders in which the names may be printed.
Orderings(S) == {q \in DistinctSeqs(S, Cardinality(S)) : Len(q) = Cardinality(S)}

\* git stash --all: index and working tree are saved and reset to HEAD.
GitStashPush(st, ix, wt) == <<[index |-> ix, worktree |-> wt]>> \o st

\* git stash pop: the saved working tree comes back; of the saved index only
\* the added files come back (no --index).
\* Mutant: the stash entry is dropped, the working tree stays as it is.
GitPopTree_Drop(wt, saved) == wt

GitPopTree(wt, saved) == saved.worktree

GitPopIndex(hd, saved) ==
    [p \in Paths |-> IF hd[p] = Absent THEN saved.index[p] ELSE hd[p]]

LeastPath(S) == CHOOSE p \in S : \A q \in S : p = q \/ PathLess(p, q)

\* One file operation of the checkout of the tree target into the working
\* tree wt: git first removes the files the target does not have, then
\* writes the files that differ, in path order; it unlinks the file that is
\* there, creates the new file, writes it.
CheckoutStep(wt, target) ==
    LET remove == {p \in Paths : ~target[p].exists /\ wt[p].exists}
        write == {p \in Paths : target[p].exists /\ wt[p] # target[p]}
    IN  IF remove # {}
        THEN [wt EXCEPT ![LeastPath(remove)] = Absent]
        ELSE LET p == LeastPath(write) IN
             [wt EXCEPT ![p] = IF wt[p] = EmptyFile THEN target[p]
                                ELSE IF wt[p].exists THEN Absent
                                ELSE EmptyFile]

\* The next step of a git command in phase ph on g = [index, worktree,
\* stash]: the repository after the step and the phase it is in then.
GitStep(op, ph, g, hd) ==
    CASE op = "add" ->
            [g |-> [g EXCEPT !.index = GitAddIndex(g.worktree)], ph |-> 1]
      [] op = "stash" /\ ph = 0 ->
            [g |-> [g EXCEPT !.stash = GitStashPush(g.stash, g.index, g.worktree)],
             ph |-> 1]
      [] op = "stash" /\ ph = 1 ->
            IF g.worktree # hd
            THEN [g |-> [g EXCEPT !.worktree = CheckoutStep(g.worktree, hd)], ph |-> 1]
            ELSE [g |-> [g EXCEPT !.index = hd], ph |-> 2]
      [] op = "stash" /\ ph = 2 ->
            [g |-> g, ph |-> 3]
      [] op = "pop" /\ ph = 0 /\ g.stash # <<>> ->
            LET target == GitPopTree(g.worktree, Head(g.stash)) IN
            IF g.worktree # target
            THEN [g |-> [g EXCEPT !.worktree = CheckoutStep(g.worktree, target)],
                  ph |-> 0]
            ELSE [g |-> [g EXCEPT !.index = target], ph |-> 1]
      [] op = "pop" /\ ph = 1 /\ g.stash # <<>> ->
            [g |-> [g EXCEPT !.index = GitPopIndex(hd, Head(g.stash))], ph |-> 2]
      [] op = "pop" /\ ph = 2 /\ g.stash # <<>> ->
            [g |-> [g EXCEPT !.stash = Tail(g.stash)], ph |-> 3]
      [] OTHER -> [g |-> g, ph |-> Phases(op)]

\* The points the command passes through from phase ph on.
RECURSIVE GitPoints(_, _, _, _)
GitPoints(op, ph, g, hd) ==
    {[g |-> g, ph |-> ph]} \cup
        (IF ph >= Phases(op) THEN {}
         ELSE UNION {GitPoints(op, n.ph, n.g, hd) : n \in {GitStep(op, ph, g, hd)}})

\* Where the command is when subprocess.run returns or raises: at its end on
\* exit status 0, before its end on another exit status, anywhere when the
\* timeout ends the wait.
GitRun(op, outcome, g, hd) ==
    LET points == GitPoints(op, 0, g, hd) IN
    CASE outcome = "ok" -> {x \in points : x.ph = Phases(op)}
      [] outcome = "fail" -> {x \in points : x.ph < Phases(op)}
      [] OTHER -> points

(***************************************************************************)
(* The main block.                                                         *)
(***************************************************************************)
\* Mutant: the test of the change set is missing.
Branch_AlwaysDiff(updated) == "load_new"

\* if updated_products: ... else: ...
Branch(updated) == IF updated # <<>> THEN "load_new" ELSE "no_update"

\* Mutant: the diffs are rendered before the stash is popped.
After_RenderBeforePop(step) ==
    CASE step = "add" -> "diff"
      [] step = "load_new" -> "stash"
      [] step = "stash" -> "load_old"
      [] step = "load_old" -> "render"
      [] step = "render" -> "pop"
      [] step = "pop" -> "exit"
      [] step = "no_update" -> "exit"

\* Mutant: the else is missing, 'No update' is printed after the diffs too.
After_NoElse(step) ==
    CASE step = "add" -> "diff"
      [] step = "load_new" -> "stash"
      [] step = "stash" -> "load_old"
      [] step = "load_old" -> "pop"
      [] step = "pop" -> "render"
      [] step = "render" -> "no_update"
      [] step = "no_update" -> "exit"

\* Mutant: the stash is not popped.
After_NoPop(step) ==
    CASE step = "add" -> "diff"
      [] step = "load_new" -> "stash"
      [] step = "stash" -> "load_old"
      [] step = "load_old" -> "render"
      [] step = "pop" -> "render"
      [] step = "render" -> "exit"
      [] step = "no_update" -> "exit"

\* Mutant: after the pop the snapshots are taken again.
After_Again(step) ==
    CASE step = "add" -> "diff"
      [] step = "load_new" -> "stash"
      [] step = "stash" -> "load_old"
      [] step = "load_old" -> "pop"
      [] step = "pop" -> "load_new"
      [] step = "render" -> "exit"
      [] step = "no_update" -> "exit"

\* The statement that follows a statement of the main block.
After(step) ==
    CASE step = "add" -> "diff"
      [] step = "load_new" -> "stash"
      [] step = "stash" -> "load_old"
      [] step = "load_old" -> "pop"
      [] step = "pop" -> "render"
      [] step = "render" -> "exit"
      [] step = "no_update" -> "exit"

\* Mutant: the two exit statuses are exchanged.
ExitStatus_Inverted(failed) == IF failed THEN 0 ELSE 1

\* sys.exit(1 if some_script_failed else 0)
ExitStatus(failed) == IF failed THEN 1 ELSE 0

\* An exception leaves the with block and ends the process: the interpreter
\* exits with status 1, and the summary printed so far is not delivered.
Abort ==
    /\ pc' = "aborted"
    /\ exit_status' = 1
    /\ summary_out' = StepSummaryExit(summary, summary_out, TRUE)

scriptVars ==
    << dirEntries, scripts, idx, child, results, some_script_failed, writesLeft,
       maxElapsed, postScriptTree >>

\* get_updated_products, first call: git add --all
GitAdd ==
    /\ pc = "add"
    /\ \E outcome \in Outcomes :
       \E x \in GitRun("add", outcome,
                        [index |-> index, worktree |-> worktree, stash |-> stash],
                        head) :
          /\ index' = x.g.index
          /\ orphan' = Orphaned("add", outcome, x.ph)
          /\ trace' = Append(trace, Event("add", NoPath, 0, outcome = "ok"))
          /\ IF Raises(outcome) THEN Abort
             ELSE /\ pc' = After("add")
                  /\ UNCHANGED << exit_status, summary_out >>
    /\ UNCHANGED << scriptVars, head, worktree, stash, git_diff, updated_products,
                    new_files_content, old_files_content, summary, commit_message,
                    commit_out >>

\* get_updated_products, second call and the rest of the function; then the
\* heading of the update summary and the test of the change set.
GitDiff ==
    /\ pc = "diff"
    /\ \E outcome \in {"ok", "fail", "timeout"} :
          /\ trace' = Append(trace, Event("diff", NoPath, 0, outcome = "ok"))
          /\ IF Raises(outcome)
             THEN /\ Abort
                  /\ UNCHANGED << git_diff, updated_products, summary >>
             ELSE /\ \E renames \in GitRenamePairings(head, index) :
                     \E names \in Orderings(GitStagedNames(head, index, renames)) :
                        git_diff' = GitDiffStdout(names)
                  /\ updated_products' = get_updated_products(git_diff')
                  /\ summary' = println(summary, Plain("## Update summary"))
                  /\ pc' = Branch(updated_products')
                  /\ UNCHANGED << exit_status, summary_out >>
    /\ UNCHANGED << scriptVars, head, index, worktree, stash, new_files_content,
                    old_files_content, commit_message, commit_out >>
    /\ UNCHANGED orphan

\* new_files_content = load_products_json(updated_products)
LoadNew ==
    /\ pc = "load_new"
    /\ LET loaded == load_products_json(updated_products, worktree) IN
          /\ trace' = Append(trace, Event("load_new", NoPath, 0, ~loaded.raised))
          /\ worktree' = loaded.tree
          /\ IF loaded.raised
             THEN /\ Abort
                  /\ UNCHANGED new_files_content
             ELSE /\ new_files_content' = loaded.value
                  /\ pc' = After("load_new")
                  /\ UNCHANGED << exit_status, summary_out >>
    /\ UNCHANGED << scriptVars, head, index, stash, git_diff,
                    updated_products, old_files_content, summary, commit_message,
                    commit_out >>
    /\ UNCHANGED orphan

\* git stash --all --quiet
GitStash ==
    /\ pc = "stash"
    /\ \E outcome \in Outcomes :
       \E x \in GitRun("stash", outcome,
                        [index |-> index, worktree |-> worktree, stash |-> stash],
                        head) :
          /\ stash' = x.g.stash
          /\ worktree' = x.g.worktree
          /\ index' = x.g.index
          /\ orphan' = Orphaned("stash", outcome, x.ph)
          /\ trace' = Append(trace, Event("stash", NoPath, 0, outcome = "ok"))
          /\ IF Raises(outcome) THEN Abort
             ELSE /\ pc' = After("stash")
                  /\ UNCHANGED << exit_status, summary_out >>
    /\ UNCHANGED << scriptVars, head, git_diff, updated_products, new_files_content,
                    old_files_content, summary, commit_message, commit_out >>

\* old_files_content = load_products_json(updated_products)
LoadOld ==
    /\ pc = "load_old"
    /\ LET loaded == load_products_json(updated_products, worktree) IN
          /\ trace' = Append(trace, Event("load_old", NoPath, 0, ~loaded.raised))
          /\ worktree' = loaded.tree
          /\ IF loaded.raised
             THEN /\ Abort
                  /\ UNCHANGED old_files_content
             ELSE /\ old_files_content' = loaded.value
                  /\ pc' = After("load_old")
                  /\ UNCHANGED << exit_status, summary_out >>
    /\ UNCHANGED << scriptVars, head, index, stash, git_diff,
                    updated_products, new_files_content, summary, commit_message,
                    commit_out >>
    /\ UNCHANGED orphan

\* git stash pop --quiet
GitPop ==
    /\ pc = "pop"
    /\ \E outcome \in Outcomes :
       \E x \in GitRun("pop", outcome,
                        [index |-> index, worktree |-> worktree, stash |-> stash],
                        head) :
          /\ stash' = x.g.stash
          /\ worktree' = x.g.worktree
          /\ index' = x.g.index
          /\ orphan' = Orphaned("pop", outcome, x.ph)
          /\ trace' = Append(trace, Event("pop", NoPath, 0, outcome = "ok"))
          /\ IF Raises(outcome) THEN Abort
             ELSE /\ pc' = After("pop")
                  /\ UNCHANGED << exit_status, summary_out >>
    /\ UNCHANGED << scriptVars, head, git_diff, updated_products, new_files_content,
                    old_files_content, summary, commit_message, commit_out >>

(***************************************************************************)
(* generate_commit_message                                                 *)
(***************************************************************************)
Bullet(line) == Line("-", <<>>, 0, FALSE, line)

\* Mutant: the diff lines are printed to the summary only.
DiffLoop_SummaryOnly(lines, i, out) ==
    [summary |-> out.summary \o [j \in 1..(Len(lines) - i + 1) |-> Bullet(lines[i + j - 1])],
     commit |-> out.commit]

\* for line in diff.pretty().split('\n'): the same line goes to both buffers.
RECURSIVE DiffLoop(_, _, _)
DiffLoop(lines, i, out) ==
    IF i > Len(lines) THEN out
    ELSE DiffLoop(lines, i + 1,
                  [summary |-> println(out.summary, Bullet(lines[i])),
                   commit |-> println(out.commit, Bullet(lines[i]))])

\* for path in old_content: header, diff lines, empty line.
RECURSIVE ProductLoop(_, _, _, _)
ProductLoop(old_content, new_content, i, out) ==
    IF i > Len(old_content) THEN out
    ELSE LET path == old_content[i].key
             product_name == Stem(path)
             headed == [summary |-> println(out.summary,
                                            Line("###", <<product_name>>, 0, FALSE, EmptyText)),
                        commit |-> println(out.commit,
                                           Line("name:", <<product_name>>, 0, FALSE, EmptyText))]
             diff == DeepDiff(DictGet(old_content, path), DictGet(new_content, path))
             listed == DiffLoop(SplitLines(Pretty(diff)), 1, headed)
         IN  ProductLoop(old_content, new_content, i + 1,
                         [summary |-> println(listed.summary, Plain("")),
                          commit |-> println(listed.commit, Plain(""))])

generate_commit_message(old_content, new_content, summary_buffer) ==
    LET keys == DictKeys(old_content)
        product_names == [i \in 1..Len(keys) |-> Stem(keys[i])]
    IN  ProductLoop(old_content, new_content, 1,
            [summary |-> println(summary_buffer,
                                 Line("Updated", product_names, Len(old_content), FALSE, EmptyText)),
             commit |-> println(<<>>, Line("subject", product_names, 0, FALSE, EmptyText))])

GenerateCommitMessage ==
    /\ pc = "render"
    /\ LET out == generate_commit_message(old_files_content, new_files_content, summary) IN
          /\ summary' = out.summary
          /\ commit_message' = out.commit
          /\ commit_out' = OutputExit(out.commit)
    /\ trace' = Append(trace, Event("render", NoPath, 0, TRUE))
    /\ pc' = After("render")
    /\ UNCHANGED << scriptVars, head, index, worktree, stash, git_diff,
                    updated_products, new_files_content, old_files_content,
                    summary_out, exit_status >>
    /\ UNCHANGED orphan

\* step_summary.println("No update")
NoUpdate ==
    /\ pc = "no_update"
    /\ summary' = println(summary, Plain("No update"))
    /\ trace' = Append(trace, Event("no_update", NoPath, 0, TRUE))
    /\ pc' = After("no_update")
    /\ UNCHANGED << scriptVars, head, index, worktree, stash, git_diff,
                    updated_products, new_files_content, old_files_content,
                    commit_message, summary_out, commit_out, exit_status >>
    /\ UNCHANGED orphan

\* The with block ends and the process exits.
Exit ==
    /\ pc = "exit"
    /\ summary_out' = StepSummaryExit(summary, summary_out, FALSE)
    /\ exit_status' = ExitStatus(some_script_failed)
    /\ pc' = "done"
    /\ UNCHANGED << scriptVars, head, index, worktree, stash, git_diff,
                    updated_products, new_files_content, old_files_content,
                    summary, commit_message, commit_out, trace >>
    /\ UNCHANGED orphan

\* After the process has ended on a timeout, the git command it left running
\* does its next step.
GitGoesOn ==
    /\ pc = "aborted"
    /\ orphan # NoOrphan
    /\ LET n == GitStep(orphan.op, orphan.ph,
                        [index |-> index, worktree |-> worktree, stash |-> stash],
                        head)
       IN  /\ index' = n.g.index
           /\ worktree' = n.g.worktree
           /\ stash' = n.g.stash
           /\ orphan' = Orphaned(orphan.op, "timeout", n.ph)
    /\ UNCHANGED << pc, scriptVars, head, git_diff, updated_products,
                    new_files_content, old_files_content, summary, commit_message,
                    summary_out, commit_out, exit_status, trace >>

Next ==
    \/ RunScriptsBegin
    \/ StartScript
    \/ ScriptWrite
    \/ ScriptExit
    \/ RunScriptsEnd
    \/ GitAdd
    \/ GitDiff
    \/ LoadNew
    \/ GitStash
    \/ LoadOld
    \/ GitPop
    \/ GenerateCommitMessage
    \/ NoUpdate
    \/ Exit
    \/ GitGoesOn

\* The steps of the interpreter itself: all but those of the child process.
MainStep ==
    \/ RunScriptsBegin
    \/ StartScript
    \/ RunScriptsEnd
    \/ GitAdd
    \/ GitDiff
    \/ LoadNew
    \/ GitStash
    \/ LoadOld
    \/ GitPop
    \/ GenerateCommitMessage
    \/ NoUpdate
    \/ Exit

Spec == Init /\ [][Next]_vars

\* The interpreter always takes its next step, every git call returns (it is
\* killed after 10 seconds at the latest), and every child terminates.
InitLive ==
    /\ dirEntries \in DistinctSeqs(DirUniverse, MaxEntries)
    /\ head \in Heads
    /\ writesLeft = 1
    /\ maxElapsed = 1
    /\ Start

SpecLive == InitLive /\ [][Next]_vars /\ WF_vars(MainStep) /\ WF_vars(ScriptExit)

SpecScripts == InitScripts /\ [][Next]_vars

(***************************************************************************)
(* Notions the properties are stated in.                                   *)
(***************************************************************************)
VcOps == {"add", "diff", "stash", "pop"}
ScriptOps == {"script_start", "script_end"}

IsScriptEvent(e) == e.op \in ScriptOps
IsPipelineEvent(e) == e.op \notin ScriptOps

ScriptTrace == SelectSeq(trace, IsScriptEvent)
PipelineTrace == SelectSeq(trace, IsPipelineEvent)

OpsOf(t) == [i \in 1..Len(t) |-> t[i].op]

IsPrefix(a, b) == Len(a) <= Len(b) /\ SubSeq(b, 1, Len(a)) = a

Happened(op) == \E i \in 1..Len(trace) : trace[i].op = op
Succeeded(op) == \E i \in 1..Len(trace) : trace[i].op = op /\ trace[i].ok

SomeScriptExitedNonZero ==
    \E i \in 1..Len(trace) : trace[i].op = "script_end" /\ trace[i].rc # 0

Ended == pc \in {"done", "aborted"}

\* The order of the operations of a run with a non-empty change set.
ChangeOrder == <<"add", "diff", "load_new", "stash", "load_old", "pop", "render">>
NoChangeOrder == <<"add", "diff", "no_update">>

\* The discovered scripts: the .py files of the listing, in ascending name order.
DiscoveredFiles == {dirEntries[i] : i \in {j \in 1..Len(dirEntries) : dirEntries[j].ext = "py"}}

DiscoveredInOrder ==
    [i \in 1..Cardinality(DiscoveredFiles) |->
        CHOOSE f \in DiscoveredFiles :
            Cardinality({g \in DiscoveredFiles : Rank(g) < Rank(f)}) = i - 1]

\* Two documents that differ at most in the order of array elements.
Normal(doc) == {[key |-> e.key, kind |-> e.val.kind, n |-> e.val.n, elems |-> Elems(e.val.arr)] : e \in doc}
SameStructure(d1, d2) == Normal(d1) = Normal(d2)

ProductPath(stem) == CHOOSE p \in Paths : Parent(p) = DATA_DIR /\ p[Len(p)].stem = stem

\* C1: once git stash has succeeded, the process never ends with the working
\* tree in another state than the one the scripts left (the 'new' state),
\* whether the run ends normally or with an error.
C1_TreeRestoredOnEveryExit ==
    (Ended /\ Succeeded("stash")) => worktree = postScriptTree

\* C2: a run that reaches the end of the pipeline exits with status 1 if and
\* only if at least one update script exited non-zero, and with 0 otherwise.
C2_ExitStatusIffScriptFailed ==
    pc = "done" =>
        /\ exit_status \in {0, 1}
        /\ exit_status = 1 <=> SomeScriptExitedNonZero

C2_Witness ==
    /\ pc = "done"
    /\ exit_status = 1
    /\ updated_products # <<>>
    /\ \E i \in 1..Len(trace) : trace[i].op = "script_end" /\ trace[i].rc = 0

\* C3: with a non-empty change set the operations run in the order stage-all,
\* diff-staged-names, load new, stash, load old, pop, render, each at most
\* once, after all scripts have finished and only after the previous one has
\* succeeded; nothing of the diffs is written before the pop has succeeded.
C3_StrictOrder ==
    /\ IsPrefix(OpsOf(PipelineTrace),
                IF updated_products # <<>> THEN ChangeOrder ELSE NoChangeOrder)
    /\ \A i \in 1..(Len(PipelineTrace) - 1) : PipelineTrace[i].ok
    /\ \A i, j \in 1..Len(trace) :
          (i < j /\ IsPipelineEvent(trace[i])) => IsPipelineEvent(trace[j])
    /\ PipelineTrace # <<>> => (child = <<>> /\ Len(ScriptTrace) = 2 * Len(scripts))
    /\ (\/ commit_message # <<>>
        \/ commit_out # <<>>
        \/ \E i \in 1..Len(summary) : summary[i].tag \in {"Updated", "###", "-"})
          => Succeeded("pop")

C3_Witness ==
    /\ pc = "done"
    /\ OpsOf(PipelineTrace) = ChangeOrder
    /\ Len(scripts) >= 2

\* C4: when a version-control command fails or times out, nothing runs after
\* it: the run ends with the error, the exit statement is not reached, and
\* neither the summary nor the commit_message output is delivered.
C4_VcFailureAborts ==
    \A i \in 1..Len(trace) :
        (trace[i].op \in VcOps /\ ~trace[i].ok) =>
            /\ i = Len(trace)
            /\ pc = "aborted"
            /\ summary_out = <<>>
            /\ commit_message = <<>>
            /\ commit_out = <<>>

C4_Witness ==
    /\ pc = "aborted"
    /\ trace # <<>>
    /\ trace[Len(trace)].op = "pop"
    /\ ~trace[Len(trace)].ok
    /\ summary # <<>>
    /\ summary_out = <<>>

\* C5: run_scripts runs every discovered script exactly once, in ascending
\* name order, one at a time, whatever the exit statuses: the script events
\* are start and end of the first script, start and end of the second, ...
C5_ScriptsOnceInOrder ==
    LET expected == DiscoveredInOrder
        st == ScriptTrace
    IN  /\ Len(st) <= 2 * Len(expected)
        /\ \A k \in 1..Len(st) :
              /\ st[k].op = IF k % 2 = 1 THEN "script_start" ELSE "script_end"
              /\ st[k].arg = Join(SRC_DIR, expected[(k + 1) \div 2])
        /\ (child # <<>>) <=> (Len(st) % 2 = 1)
        /\ pc \notin {"start", "loop"} => Len(st) = 2 * Len(expected)

C5_Witness ==
    /\ pc = "add"
    /\ Len(ScriptTrace) = 6
    /\ ScriptTrace[2].rc # 0
    /\ dirEntries[1] = Name("c", "py")

\* C6: the flag returned by run_scripts is true if and only if at least one
\* script exited non-zero (false when there is no script).
C6_AggregateFlag ==
    pc \notin {"start", "loop"} => (some_script_failed <=> SomeScriptExitedNonZero)

C6_Witness ==
    /\ pc = "add"
    /\ some_script_failed
    /\ Len(results) = 3
    /\ results[1].success
    /\ ~results[2].success
    /\ results[3].success

\* C7: with an empty change set the run prints 'No update' after the update
\* heading and does no diffing: no snapshot load, stash, pop or rendering, no
\* commit message, no product section; the table lists every script and the
\* exit status still follows the scripts.
C7_NoUpdateSkipsDiffing ==
    (pc \in {"no_update", "exit", "done"} /\ updated_products = <<>>) =>
        /\ \A i \in 1..Len(trace) :
              trace[i].op \notin {"load_new", "stash", "load_old", "pop", "render"}
        /\ stash = <<>>
        /\ new_files_content = <<>> /\ old_files_content = <<>>
        /\ commit_message = <<>> /\ commit_out = <<>>
        /\ \A i \in 1..Len(summary) : summary[i].tag \notin {"Updated", "###", "-"}
        /\ Cardinality({i \in 1..Len(summary) : summary[i].tag = "row"})
              = Cardinality(DiscoveredFiles)
        /\ pc \in {"exit", "done"} =>
              /\ summary[Len(summary)].tag = "No update"
              /\ summary[Len(summary) - 1].tag = "## Update summary"
        /\ pc = "done" =>
              /\ summary_out = summary
              /\ exit_status = IF SomeScriptExitedNonZero THEN 1 ELSE 0

C7_Witness ==
    /\ pc = "done"
    /\ updated_products = <<>>
    /\ exit_status = 1
    /\ Len(results) = 3
    /\ Cardinality({i \in 1..3 : results[i].success}) = 2
    /\ summary_out[Len(summary_out)].tag = "No update"

\* C8: get_updated_products returns, sorted and without duplicates, exactly
\* the staged names whose parent directory is the output directory: not the
\* names outside it, not those in its subdirectories, not the empty entry
\* that ends the output of git.
C8_UpdatedProductsFiltered ==
    Succeeded("diff") =>
        /\ \A i \in 1..Len(updated_products) :
              /\ Len(updated_products[i]) = 2
              /\ updated_products[i][1] = Name("releases", "")
        /\ \A i, j \in 1..Len(updated_products) :
              i < j => Rank(updated_products[i][2]) < Rank(updated_products[j][2])
        /\ {updated_products[i] : i \in 1..Len(updated_products)}
              = {f \in {git_diff[i] : i \in 1..Len(git_diff)} :
                    Len(f) = 2 /\ f[1] = Name("releases", "")}

C8_Witness ==
    /\ Succeeded("diff")
    /\ git_diff = <<BETA, ALPHA, EmptyString>>
    /\ updated_products = <<ALPHA, BETA>>

\* C9: for an entity of the change set whose old and new contents have the
\* same structure (equal, or equal up to the order of array elements) the
\* reporter writes the header and then no bullet line, in the summary and in
\* the commit message.
C9_EmptyDiffNoBullet ==
    Succeeded("render") =>
        /\ \A i \in 1..Len(summary) :
              (/\ summary[i].tag = "###"
               /\ SameStructure(DictGet(old_files_content, ProductPath(summary[i].names[1])),
                                DictGet(new_files_content, ProductPath(summary[i].names[1]))))
                 => summary[i + 1].tag # "-"
        /\ \A i \in 1..Len(commit_message) :
              (/\ commit_message[i].tag = "name:"
               /\ SameStructure(DictGet(old_files_content, ProductPath(commit_message[i].names[1])),
                                DictGet(new_files_content, ProductPath(commit_message[i].names[1]))))
                 => commit_message[i + 1].tag # "-"

\* C10: a run with a non-empty change set that completes normally ends with
\* the working tree the last script left: every file changed, created or
\* deleted by the scripts, inside or outside the output directory, has the
\* content the scripts gave it.
C10_TreeAsScriptsLeftIt ==
    (pc = "done" /\ updated_products # <<>>) =>
        \A p \in Paths : worktree[p] = postScriptTree[p]

C10_Witness ==
    /\ pc = "done"
    /\ Succeeded("pop")
    /\ head[ALPHA] = Absent
    /\ worktree[ALPHA] # Absent
    /\ head[README] # Absent
    /\ worktree[README] = Absent

StemsOf(paths) == [i \in 1..Len(paths) |-> Stem(paths[i])]

HasTag(tag, line) == line.tag = tag

LastEvent == trace[Len(trace)]

\* C11: load_products_json returns a mapping whose keys are exactly the given
\* paths, in their order, and it never fails because a path is missing (only
\* on a file that is no JSON): a missing path maps to the empty object.  So
\* both snapshots have the change set as their keys, a file created by the
\* run has old content {} and a file deleted by the run has new content {}.
C11_SnapshotKeysAndMissingFiles ==
    /\ Succeeded("load_new") =>
          /\ DictKeys(new_files_content) = updated_products
          /\ \A i \in 1..Len(updated_products) :
                postScriptTree[updated_products[i]] = Absent
                   => new_files_content[i].value = {}
    /\ Succeeded("load_old") =>
          /\ DictKeys(old_files_content) = updated_products
          /\ DictKeys(old_files_content) = DictKeys(new_files_content)
          /\ \A i \in 1..Len(updated_products) :
                head[updated_products[i]] = Absent => old_files_content[i].value = {}
    /\ (trace # <<>> /\ LastEvent.op \in {"load_new", "load_old"} /\ ~LastEvent.ok) =>
          \E i \in 1..Len(updated_products) : worktree[updated_products[i]] = BadText

C11_Witness ==
    /\ Succeeded("load_old")
    /\ updated_products = <<ALPHA, BETA>>
    /\ head[ALPHA] = Absent
    /\ postScriptTree[ALPHA] # Absent
    /\ postScriptTree[BETA] = Absent
    /\ old_files_content[1].value = {}
    /\ new_files_content[2].value = {}

\* The lines of the summary after the sentence that names the products, with
\* the headers written as the commit message writes them.
SummaryBlocks ==
    LET at == CHOOSE i \in 1..Len(summary) : summary[i].tag = "Updated"
        rest == SubSeq(summary, at + 1, Len(summary))
    IN  [i \in 1..Len(rest) |->
            IF rest[i].tag = "###" THEN [rest[i] EXCEPT !.tag = "name:"] ELSE rest[i]]

IsHeader(line) == line.tag = "name:"

HeaderNames(lines) ==
    LET hs == SelectSeq(lines, IsHeader) IN [i \in 1..Len(hs) |-> hs[i].names[1]]

\* C12: the commit message is one subject line with the stems of the change
\* set, in its order, and one section per path in that order; the summary
\* sentence gives the size of the change set and the same names; the lines
\* of every entity are the same in the summary and in the commit message.
C12_CommitMessageAndSummaryAgree ==
    Succeeded("render") =>
        /\ commit_message[1].tag = "subject"
        /\ commit_message[1].names = StemsOf(updated_products)
        /\ \A i \in 2..Len(commit_message) : commit_message[i].tag # "subject"
        /\ HeaderNames(commit_message) = StemsOf(updated_products)
        /\ Cardinality({i \in 1..Len(summary) : summary[i].tag = "Updated"}) = 1
        /\ \A i \in 1..Len(summary) :
              summary[i].tag = "Updated" =>
                 /\ summary[i].num = Len(updated_products)
                 /\ summary[i].names = StemsOf(updated_products)
        /\ SummaryBlocks = Tail(commit_message)
        /\ commit_out = commit_message

C12_Witness ==
    /\ Succeeded("render")
    /\ Len(updated_products) = 2
    /\ \E i \in 1..Len(commit_message) :
          commit_message[i].tag = "-" /\ commit_message[i].item.type = "values_changed"

\* C13: a script that exits non-zero stops nothing: a run ends with an error
\* only on a failed pipeline operation, and a run with a failed script and a
\* non-empty change set that ends normally has staged, listed, loaded both
\* snapshots, popped the stash, reported every changed entity, and exits
\* with status 1.
C13_ScriptFailureDoesNotStopPipeline ==
    SomeScriptExitedNonZero =>
        /\ pc = "aborted" => (IsPipelineEvent(LastEvent) /\ ~LastEvent.ok)
        /\ (pc = "done" /\ updated_products # <<>>) =>
              /\ OpsOf(PipelineTrace) = ChangeOrder
              /\ \A i \in 1..Len(PipelineTrace) : PipelineTrace[i].ok
              /\ DictKeys(new_files_content) = updated_products
              /\ DictKeys(old_files_content) = updated_products
              /\ \A i \in 1..Len(updated_products) :
                    \E j \in 1..Len(summary_out) :
                       /\ summary_out[j].tag = "###"
                       /\ summary_out[j].names = <<Stem(updated_products[i])>>
              /\ exit_status = 1

C13_Witness ==
    /\ pc = "done"
    /\ exit_status = 1
    /\ Len(updated_products) = 2
    /\ Len(results) = 2
    /\ ~results[1].success
    /\ ~results[2].success
    /\ Succeeded("render")

IsRow(line) == line.tag = "row"

TableRows == SelectSeq(summary, IsRow)

\* C14: the summary table has exactly one row per discovered script, failed
\* scripts included, and the rows are in descending order of duration.
C14_TableRows ==
    pc \notin {"start", "loop"} =>
        /\ Len(TableRows) = Cardinality(DiscoveredFiles)
        /\ \A f \in DiscoveredFiles :
              Cardinality({i \in 1..Len(TableRows) : TableRows[i].names = <<f.stem>>}) = 1
        /\ \A i \in 1..Len(TableRows) :
              \E k \in 1..Len(trace) :
                 /\ trace[k].op = "script_end"
                 /\ Stem(trace[k].arg) = TableRows[i].names[1]
                 /\ TableRows[i].flag = (trace[k].rc = 0)
        /\ \A i \in 1..(Len(TableRows) - 1) : TableRows[i].num >= TableRows[i + 1].num

C14_Witness ==
    /\ pc = "add"
    /\ Len(TableRows) = 3
    /\ results[1].duration < results[2].duration
    /\ TableRows[1].num > TableRows[3].num
    /\ ~TableRows[1].flag

TagsOf(lines) == [i \in 1..Len(lines) |-> lines[i].tag]

\* The order of a complete summary: the table, the update heading, then
\* 'No update' or the sentence and the blocks of the entities.
SummaryShape(lines) ==
    LET tags == TagsOf(lines)
        n == Len(lines)
        at == {i \in 1..n : tags[i] = "## Update summary"}
    IN  /\ Cardinality(at) = 1
        /\ LET u == CHOOSE i \in at : TRUE IN
              /\ u >= 5
              /\ tags[1] = "## Script execution summary"
              /\ tags[2] = "| Name | Duration | Succeeded |"
              /\ tags[3] = "|------|----------|-----------|"
              /\ \A i \in 4..(u - 2) : tags[i] = "row"
              /\ tags[u - 1] = ""
              /\ \/ n = u + 1 /\ tags[n] = "No update"
                 \/ /\ n > u + 2
                    /\ tags[u + 1] = "Updated"
                    /\ tags[u + 2] = "###"
                    /\ \A i \in (u + 2)..n : tags[i] \in {"###", "-", ""}
                    /\ tags[n] = ""

SummaryStep ==
    /\ IsPrefix(summary, summary')
    /\ pc' \in {"start", "loop"} => summary' = <<>>
    /\ pc' = "done" => (SummaryShape(summary') /\ summary_out' = summary')

\* C15: the summary only grows; nothing is printed before all scripts have
\* finished; a run that completes has printed the script table, then the
\* update heading, then either the line 'No update' or the sentence and one
\* block per entity, never both, and delivers it so.
C15_SummaryAppendOnlyInOrder == [][SummaryStep]_vars

C15_Witness ==
    /\ pc = "done"
    /\ Len(scripts) = 2
    /\ Cardinality({i \in 1..Len(summary_out) : summary_out[i].tag = "###"}) = 2

\* The mapping of the paths, in their order, to the documents a tree holds:
\* the document of the file, the empty object where there is no file.
SnapshotOf(paths, tree) ==
    [i \in 1..Len(paths) |->
        [key |-> paths[i],
         value |-> IF tree[paths[i]].exists THEN tree[paths[i]].doc ELSE {}]]

LoadStep ==
    pc \in {"load_new", "load_old"} =>
        /\ worktree' = worktree
        /\ index' = index
        /\ stash' = stash
        /\ head' = head
        /\ pc = "load_old" => new_files_content' = new_files_content
        /\ pc' # "aborted" =>
              LET returned == IF pc = "load_new" THEN new_files_content'
                              ELSE old_files_content'
                  again == load_products_json(updated_products, worktree')
              IN  /\ returned = SnapshotOf(updated_products, worktree)
                  /\ ~again.raised
                  /\ again.value = returned
                  /\ again.tree = worktree'

\* C16: load_products_json only reads: whether it returns or raises, the
\* files it has opened, the rest of the working tree, the index, the stash
\* and the committed tree are as they were before the call; the mapping it
\* returns holds, for each path, what the tree held before the call; the
\* second call of a run leaves the mapping of the first as it is; and a
\* call on the tree that a call has left returns the same mapping and
\* leaves the same tree.
C16_LoadReadOnly == [][LoadStep]_vars

C16_Witness ==
    /\ pc = "pop"
    /\ Len(old_files_content) = 2
    /\ old_files_content # new_files_content
    /\ worktree = head
    /\ Len(stash) = 1

\* The position of the main block: the states of the run in their order.
PcRank(p) ==
    CASE p = "start" -> 0
      [] p = "loop" -> 1
      [] p = "add" -> 2
      [] p = "diff" -> 3
      [] p = "load_new" -> 4
      [] p = "stash" -> 5
      [] p = "load_old" -> 6
      [] p = "pop" -> 7
      [] p = "render" -> 8
      [] p = "no_update" -> 8
      [] p = "exit" -> 9
      [] p = "done" -> 10
      [] p = "aborted" -> 10

\* What the process itself holds: everything but the repository and the git
\* command a timeout may leave running.
processVars ==
    << pc, scriptVars, head, git_diff, updated_products, new_files_content,
       old_files_content, summary, commit_message, summary_out, commit_out,
       exit_status, trace >>

\* C17: the run only moves forward through its states, the process takes no
\* step once it has ended (only a git command that a timeout left running
\* may still finish its work on the repository), and, every child
\* terminating and every git call returning, the run eventually ends: at the
\* exit statement or with an error.
C17_LinearAndTerminates ==
    /\ [][pc' = pc \/ PcRank(pc') > PcRank(pc)]_vars
    /\ [][~Ended \/ UNCHANGED processVars]_vars
    /\ <>Ended

C17_Witness ==
    /\ pc = "done"
    /\ Len(scripts) = 1
    /\ Succeeded("render")
    /\ writesLeft = 0

CountOps(op) == Cardinality({i \in 1..Len(trace) : trace[i].op = op})

\* C18: the run never has more than one stash entry outstanding: stash is
\* invoked at most once and only with a non-empty change set, pop at most
\* once and only after a successful stash, and at the exit statement no
\* stash entry is left.
C18_StashBalance ==
    /\ Len(stash) \in {0, 1}
    /\ CountOps("stash") <= 1
    /\ CountOps("pop") <= 1
    /\ Happened("stash") => updated_products # <<>>
    /\ \A j \in 1..Len(trace) :
          trace[j].op = "pop" =>
             \E i \in 1..(j - 1) : trace[i].op = "stash" /\ trace[i].ok
    /\ pc \in {"render", "exit", "done"} => stash = <<>>

C18_Witness ==
    /\ pc = "done"
    /\ Succeeded("stash")
    /\ Succeeded("pop")
    /\ stash = <<>>
    /\ worktree # head

====
